---------------------------- MODULE Spec2Model ----------------------------
(***************************************************************************)
(* LifeTraker backend: analytics and aggregation services.                 *)
(*                                                                         *)
(*   RankingsService   (src/unnamed/part_000)                              *)
(*   CheckinsService   (src/unnamed/part_001)                              *)
(*   GoalsService      (src/unnamed/part_002)                              *)
(*   StatsService      (src/src/stats/stats.service.ts)                    *)
(*   StreaksService    (src/src/streaks/streaks.service.ts)                *)
(*                                                                         *)
(* A Date is the integer count of hours since 1970-01-01T00:00Z (the code  *)
(* counts milliseconds; every divisor of the code is scaled to hours, so   *)
(* MS_PER_DAY is HoursPerDay).  A string is the sequence of its character  *)
(* codes, so that localeCompare, slice and padStart act on characters.     *)
(* An optional value is NULL (null or undefined) or Some(v).               *)
(***************************************************************************)
EXTENDS Integers, Sequences, FiniteSets, TLC

VARIABLES
    goal,           \* prisma.goal           : set of rows
    goalCheckin,    \* prisma.goalCheckin    : set of rows
    streak,         \* prisma.streak         : set of rows
    streakMember,   \* prisma.streakMember   : set of rows
    streakCheckin,  \* prisma.streakCheckin  : set of rows
    rankingEntry,   \* prisma.rankingEntry   : set of rows
    resp,           \* what the last handler call returned or threw
    inflight        \* the concurrent compute invocations: position and locals

vars == <<goal, goalCheckin, streak, streakMember, streakCheckin,
          rankingEntry, resp, inflight>>

NULL == <<>>
Some(v) == <<v>>
Val(o) == o[1]

NoResp == [op |-> "none"]

\* no concurrent invocation of compute
NoInflight == <<>>

-----------------------------------------------------------------------------
(* JavaScript Date built-ins, on hours since the epoch.                    *)

HoursPerDay == 24

Max2(a, b) == IF a >= b THEN a ELSE b
Min2(a, b) == IF a <= b THEN a ELSE b

\* Math.floor(a / b) for b > 0
FloorDiv(a, b) == a \div b

\* the day number (days since 1970-01-01) of a Date
EpochDay(t) == FloorDiv(t, HoursPerDay)

\* The arguments of the built-ins below are bound by a function application,
\* so that each is evaluated once before the body, as JavaScript evaluates
\* the arguments of a call.

\* Date.UTC(y, m, d) with m in 1..12 and d = 1, as a day number
DaysFromCivil(y, m, d) ==
    [y0 \in Int, m0 \in Int, d0 \in Int |->
        LET yy  == IF m0 <= 2 THEN y0 - 1 ELSE y0
            era == yy \div 400
            yoe == yy - era * 400
            mp  == IF m0 > 2 THEN m0 - 3 ELSE m0 + 9
            doy == (153 * mp + 2) \div 5 + d0 - 1
            doe == yoe * 365 + yoe \div 4 - yoe \div 100 + doy
        IN  era * 146097 + doe - 719468][y, m, d]

\* [y, m, d] of a day of the era that starts at day 0, m in 1..12
CivilOfEra(e, n) ==
    [era \in Int, doe \in Int |->
        [yoe \in Int |->
            [doy \in Int |->
                [mp \in Int |->
                    [y |-> yoe + era * 400 + (IF mp < 10 THEN 0 ELSE 1),
                     m |-> IF mp < 10 THEN mp + 3 ELSE mp - 9,
                     d |-> doy - (153 * mp + 2) \div 5 + 1]
                ][(5 * doy + 2) \div 153]
            ][doe - (365 * yoe + yoe \div 4 - yoe \div 100)]
        ][(doe - doe \div 1460 + doe \div 36524 - doe \div 146096) \div 365]
    ][e, n]

\* [y, m, d] of a day number, m in 1..12
CivilFromDays(z0) ==
    [z \in Int |-> CivilOfEra(z \div 146097, z % 146097)][z0 + 719468]

getUTCFullYear(t) == CivilFromDays(EpochDay(t)).y
\* 0-based, as in JavaScript
getUTCMonth(t) == CivilFromDays(EpochDay(t)).m - 1
getUTCDate(t) == CivilFromDays(EpochDay(t)).d
\* 0 = Sunday; 1970-01-01 was a Thursday
getUTCDay(t) == (EpochDay(t) + 4) % 7

\* Date.UTC(year, month, date): month 0-based, date may be <= 0 or past the
\* end of the month (it is carried into the neighbouring month)
DateUTC(y, m0, d) == (DaysFromCivil(y, m0 + 1, 1) + d - 1) * HoursPerDay

-----------------------------------------------------------------------------
(* Strings as sequences of character codes.                                *)

Chr0 == 48
ChrDash == 45
ChrW == 87

RECURSIVE Digits(_)
\* String(n) for n >= 0
Digits(n) == IF n < 10 THEN <<Chr0 + n>> ELSE Digits(n \div 10) \o <<Chr0 + (n % 10)>>

RECURSIVE padStart(_, _, _)
\* s.padStart(len, c)
padStart(s, len, c) == IF Len(s) >= len THEN s ELSE padStart(<<c>> \o s, len, c)

\* a.localeCompare(b) < 0 on strings of digits, '-' and 'W'
RECURSIVE StrLess(_, _)
StrLess(a, b) ==
    IF b = <<>> THEN FALSE
    ELSE IF a = <<>> THEN TRUE
    ELSE IF Head(a) # Head(b) THEN Head(a) < Head(b)
    ELSE StrLess(Tail(a), Tail(b))

\* d.toISOString().slice(0, 10): YYYY-MM-DD
IsoDate10(t) ==
    padStart(Digits(getUTCFullYear(t)), 4, Chr0) \o <<ChrDash>>
    \o padStart(Digits(getUTCMonth(t) + 1), 2, Chr0) \o <<ChrDash>>
    \o padStart(Digits(getUTCDate(t)), 2, Chr0)

-----------------------------------------------------------------------------
(* StatsService                                                            *)

\* normalizeDay on a valid Date: midnight UTC of its UTC calendar date
normalizeDay(t) == DateUTC(getUTCFullYear(t), getUTCMonth(t), getUTCDate(t))

Periods == {"day", "week", "month"}

bucketKey(d, period) ==
    IF period = "day" THEN IsoDate10(d)
    ELSE IF period = "month"
    THEN Digits(getUTCFullYear(d)) \o <<ChrDash>>
         \o padStart(Digits(getUTCMonth(d) + 1), 2, Chr0)
    ELSE LET dayNum        == (getUTCDay(d) + 6) % 7
             weekStart     == DateUTC(getUTCFullYear(d), getUTCMonth(d),
                                      getUTCDate(d) - dayNum)
             firstThursday == DateUTC(getUTCFullYear(weekStart), 0, 4)
             weekNumber    == FloorDiv(weekStart - firstThursday, 7 * HoursPerDay) + 1
         IN  Digits(getUTCFullYear(weekStart)) \o <<ChrDash, ChrW>>
             \o padStart(Digits(weekNumber), 2, Chr0)


-----------------------------------------------------------------------------
(* The stores as they are when nothing has been created.                   *)

EmptyStore ==
    /\ goal = {}
    /\ goalCheckin = {}
    /\ streak = {}
    /\ streakMember = {}
    /\ streakCheckin = {}
    /\ rankingEntry = {}

storeVars == <<goal, goalCheckin, streak, streakMember, streakCheckin,
               rankingEntry>>

-----------------------------------------------------------------------------
(* SpecWeek: bucketKey applied to every normalized day of a span of days.  *)

WeekSpanDays == 800

WeekFirstDay == DaysFromCivil(2023, 12, 1)

WeekDays == {(WeekFirstDay + i) * HoursPerDay : i \in 0 .. (WeekSpanDays - 1)}

\* the arguments of a call are drawn first, then bucketKey is applied
InitWeek ==
    /\ inflight = NoInflight
    /\ EmptyStore
    /\ \E d \in WeekDays, period \in Periods :
          resp = [op |-> "bucketKey.call", d |-> d, period |-> period]

BucketKeyCall ==
    /\ resp.op = "bucketKey.call"
    /\ resp' = [op |-> "bucketKey", d |-> resp.d, period |-> resp.period,
                key |-> bucketKey(resp.d, resp.period)]
    /\ UNCHANGED <<storeVars, inflight>>

NextWeek == BucketKeyCall

SpecWeek == InitWeek /\ [][NextWeek]_vars

\* ISO 8601: a week belongs to the year that holds its Thursday, and its
\* number is the rank of that Thursday among the Thursdays of that year.
IsoThursday(d) == EpochDay(d) - ((getUTCDay(d) + 6) % 7) + 3

IsoWeekYear(d) == CivilFromDays(IsoThursday(d)).y

IsoWeekNumber(d) ==
    Cardinality({t \in DaysFromCivil(IsoWeekYear(d), 1, 1) .. IsoThursday(d) :
                    (t + 4) % 7 = 4})

IsoWeekKey(d) ==
    padStart(Digits(IsoWeekYear(d)), 4, Chr0) \o <<ChrDash, ChrW>>
    \o padStart(Digits(IsoWeekNumber(d)), 2, Chr0)

\* "2024-W01" and "2023-W52" as character codes
Key2024W01 == <<50, 48, 50, 52, 45, 87, 48, 49>>
Key2023W52 == <<50, 48, 50, 51, 45, 87, 53, 50>>

\* C9: for period = week, bucketKey returns the ISO-8601 week key of the day,
\* for every calendar day.
C9_WeekKeyIsIso ==
    (resp.op = "bucketKey" /\ resp.period = "week")
        => resp.key = IsoWeekKey(resp.d)

\* C9 on its two examples: 2024-01-01 gets 2024-W01, 2023-12-31 gets 2023-W52.
C9_Examples ==
    (resp.op = "bucketKey" /\ resp.period = "week")
        => /\ (resp.d = DateUTC(2024, 0, 1) => resp.key = Key2024W01)
           /\ (resp.d = DateUTC(2023, 11, 31) => resp.key = Key2023W52)

-----------------------------------------------------------------------------
(* StreaksService                                                          *)

Users == {"u1", "u2"}

StreakIds == {"s1"}

Threw(op, status) == [op |-> op, status |-> status]

\* rows sorted by orderBy: { date: 'asc' }; the dates of a set of rows of one
\* (streak, user) are distinct (unique_streak_user_day)
RECURSIVE SortAsc(_)
SortAsc(S) ==
    IF S = {} THEN <<>>
    ELSE LET m == CHOOSE x \in S : \A y \in S : x <= y
         IN  <<m>> \o SortAsc(S \ {m})

\* StreaksService.create
StreaksCreate(userId, id, dto) ==
    LET start == normalizeDay(dto.startDate)
        end   == IF dto.endDate # NULL THEN Some(normalizeDay(Val(dto.endDate))) ELSE NULL
    IN  /\ \A s \in streak : s.id # id
        /\ IF end # NULL /\ Val(end) < start
           THEN /\ resp' = Threw("streaks.create", "BadRequest")
                /\ UNCHANGED <<storeVars, inflight>>
           ELSE /\ streak' = streak \cup {[id |-> id, createdById |-> userId,
                                           startDate |-> start, endDate |-> end]}
                /\ streakMember' = streakMember \cup
                       {[streakId |-> id, userId |-> userId, role |-> "OWNER"]}
                /\ resp' = [op |-> "streaks.create", status |-> "ok", id |-> id]
                /\ UNCHANGED <<goal, goalCheckin, streakCheckin, rankingEntry, inflight>>

\* a variant of upsert that always creates
upsertAsCreate(rows, row) == rows \cup {row}

\* streakCheckin.upsert where unique_streak_user_day: the row of the key is
\* updated when there is one, created otherwise
upsert(rows, row) ==
    {c \in rows : ~(c.streakId = row.streakId /\ c.userId = row.userId
                    /\ c.date = row.date)} \cup {row}

\* StreaksService.recordCheckin; dto.done is TRUE, FALSE or NULL (absent)
RecordCheckin(userId, streakId, dto) ==
    LET found  == {s \in streak : s.id = streakId}
        member == {m \in streakMember : m.streakId = streakId /\ m.userId = userId}
    IN  IF found = {}
        THEN resp' = Threw("recordCheckin", "NotFound") /\ UNCHANGED <<storeVars, inflight>>
        ELSE IF member = {}
        THEN resp' = Threw("recordCheckin", "Forbidden") /\ UNCHANGED <<storeVars, inflight>>
        ELSE LET s     == CHOOSE x \in found : TRUE
                 day   == normalizeDay(dto.date)
                 start == normalizeDay(s.startDate)
                 end   == IF s.endDate # NULL THEN Some(normalizeDay(Val(s.endDate))) ELSE NULL
                 done  == IF dto.done # NULL THEN Val(dto.done) ELSE TRUE
                 row   == [streakId |-> streakId, userId |-> userId,
                           date |-> day, done |-> done]
             IN  IF day < start \/ (end # NULL /\ day > Val(end))
                 THEN resp' = Threw("recordCheckin", "BadRequest") /\ UNCHANGED <<storeVars, inflight>>
                 ELSE /\ streakCheckin' = upsert(streakCheckin, row)
                      /\ resp' = [op |-> "recordCheckin", status |-> "ok", row |-> row]
                      /\ UNCHANGED <<goal, goalCheckin, streak, streakMember,
                                     rankingEntry, inflight>>

\* a variant of RunLoop that goes on counting across a gap of days
RECURSIVE RunLoopNoReset(_, _, _, _, _)
RunLoopNoReset(rows, i, longest, current, prev) ==
    IF i > Len(rows) THEN [current |-> current, longest |-> longest]
    ELSE LET d   == normalizeDay(rows[i])
             cur == current + 1
         IN  RunLoopNoReset(rows, i + 1, Max2(longest, cur), cur, Some(d))

\* the loop of statsForMember over rows[i..], as [current, longest]
RECURSIVE RunLoop(_, _, _, _, _)
RunLoop(rows, i, longest, current, prev) ==
    IF i > Len(rows) THEN [current |-> current, longest |-> longest]
    ELSE LET d   == normalizeDay(rows[i])
             cur == IF prev = NULL THEN 1
                    ELSE IF d - Val(prev) = HoursPerDay THEN current + 1 ELSE 1
         IN  RunLoop(rows, i + 1, Max2(longest, cur), cur, Some(d))

\* StreaksService.statsForMember; memberUserId may be NULL (absent)
StatsForMember(userId, streakId, memberUserId) ==
    LET member == {m \in streakMember : m.streakId = streakId /\ m.userId = userId}
        targetUser == IF memberUserId # NULL THEN Val(memberUserId) ELSE userId
        rows == SortAsc({c.date : c \in {x \in streakCheckin :
                    x.streakId = streakId /\ x.userId = targetUser /\ x.done}})
        r == RunLoop(rows, 1, 0, 0, NULL)
    IN  /\ IF member = {}
           THEN resp' = Threw("statsForMember", "Forbidden")
           ELSE resp' = [op |-> "statsForMember", status |-> "ok",
                         streakId |-> streakId, userId |-> targetUser,
                         current |-> r.current, longest |-> r.longest,
                         totalDone |-> Len(rows)]
        /\ UNCHANGED <<storeVars, inflight>>

-----------------------------------------------------------------------------
(* SpecStreak: one streak, its owner's check-ins and the member statistics *)

StreakSpanDays == 5

StreakFirstDay == DaysFromCivil(2024, 2, 27)

\* D(1) .. D(StreakSpanDays): consecutive calendar days, across a leap day
D(i) == (StreakFirstDay + i - 1) * HoursPerDay

StreakDates == {D(i) + h : i \in 1 .. StreakSpanDays, h \in {0, 13}}

StreakDtos ==
    [startDate : {D(1) + 13},
     endDate : {NULL, Some(D(1) - 1), Some(D(StreakSpanDays - 1) + 5)}]

InitStreak == EmptyStore /\ resp = NoResp /\ inflight = NoInflight

NextStreak ==
    \/ \E u \in Users, id \in StreakIds, dto \in StreakDtos : StreaksCreate(u, id, dto)
    \/ \E u \in Users, id \in StreakIds, date \in StreakDates, done \in {NULL, Some(TRUE), Some(FALSE)} :
          RecordCheckin(u, id, [date |-> date, done |-> done])
    \/ \E u \in Users, id \in StreakIds, m \in {NULL} \cup {Some(x) : x \in Users} : StatsForMember(u, id, m)

SpecStreak == InitStreak /\ [][NextStreak]_vars

\* the active days of a member: day numbers of the done check-ins
ActiveDays(streakId, userId) ==
    {EpochDay(c.date) : c \in {x \in streakCheckin :
        x.streakId = streakId /\ x.userId = userId /\ x.done}}

\* the runs of consecutive calendar days inside a set of day numbers
Runs(S) == {<<a, b>> \in S \X S : a <= b /\ \A x \in a .. b : x \in S}

LongestRun(S) ==
    IF S = {} THEN 0
    ELSE CHOOSE n \in 1 .. Cardinality(S) :
            /\ \E r \in Runs(S) : r[2] - r[1] + 1 = n
            /\ \A r \in Runs(S) : r[2] - r[1] + 1 <= n

\* the run that ends at the latest active day
CurrentRun(S) ==
    IF S = {} THEN 0
    ELSE LET last == CHOOSE x \in S : \A y \in S : y <= x
         IN  CHOOSE n \in 1 .. Cardinality(S) :
                /\ <<last - n + 1, last>> \in Runs(S)
                /\ (last - n) \notin S

\* C5: statsForMember returns longest = the longest run of consecutive active
\* days, current = the run ending at the latest active day, totalDone = the
\* number of active days (0, 0, 0 without check-ins).
C5_RunStats ==
    (resp.op = "statsForMember" /\ resp.status = "ok") =>
        LET S == ActiveDays(resp.streakId, resp.userId)
        IN  /\ resp.longest = LongestRun(S)
            /\ resp.current = CurrentRun(S)
            /\ resp.totalDone = Cardinality(S)

\* C5 on its example: active days D1, D2, D3, D5 give longest 3, current 1, total 4
C5_Witness ==
    /\ resp.op = "statsForMember" /\ resp.status = "ok"
    /\ ActiveDays(resp.streakId, resp.userId)
         = {EpochDay(D(1)), EpochDay(D(2)), EpochDay(D(3)), EpochDay(D(5))}
    /\ resp.longest = 3 /\ resp.current = 1 /\ resp.totalDone = 4

-----------------------------------------------------------------------------
(* GoalsService.  A goal row is [id, userId, targetType, targetValue,      *)
(* startDate, endDate]; title, description, categoryId and isArchived are  *)
(* stored as given and read by no computation.  A DTO field that is        *)
(* explicitly null is named in dto.nulls, an absent or null field is NULL. *)

TargetTypes == {"DAILY", "BOOLEAN", "COUNT", "WEEKLY"}

\* validateDates on parsable dates: TRUE when it throws
validateDatesThrows(startdate, enddate) ==
    enddate # NULL /\ Val(enddate) < startdate

\* validateTarget: TRUE when it throws
validateTargetThrows(type, val) ==
    LET needs == type = "COUNT" \/ type = "WEEKLY"
    IN  needs /\ (val = NULL \/ Val(val) = 0 \/ Val(val) < 1)

\* GoalsService.create
GoalsCreate(userId, id, dto) ==
    /\ \A g \in goal : g.id # id
    /\ IF \/ validateDatesThrows(dto.startDate, dto.endDate)
          \/ validateTargetThrows(dto.targetType, dto.targetValue)
       THEN resp' = Threw("goals.create", "BadRequest") /\ UNCHANGED <<storeVars, inflight>>
       ELSE /\ goal' = goal \cup
                  {[id |-> id, userId |-> userId, targetType |-> dto.targetType,
                    targetValue |-> dto.targetValue, startDate |-> dto.startDate,
                    endDate |-> dto.endDate]}
            /\ resp' = [op |-> "goals.create", status |-> "ok", id |-> id]
            /\ UNCHANGED <<goalCheckin, streak, streakMember, streakCheckin,
                           rankingEntry, inflight>>

\* a ?? b
Coalesce(a, b) == IF a # NULL THEN a ELSE b

\* GoalsService.update; dto fields are options, dto.nulls names the fields
\* passed as null
GoalsUpdate(userId, id, dto) ==
    LET found == {g \in goal : g.id = id}
    IN  IF found = {}
        THEN resp' = Threw("goals.update", "NotFound") /\ UNCHANGED <<storeVars, inflight>>
        ELSE LET currenGoal == CHOOSE g \in found : TRUE
                 startIso == Val(Coalesce(dto.startDate, Some(currenGoal.startDate)))
                 endIso   == Coalesce(dto.endDate, currenGoal.endDate)
                 type     == Val(Coalesce(dto.targetType, Some(currenGoal.targetType)))
                 val      == Coalesce(dto.targetValue, currenGoal.targetValue)
                 next     ==
                    [id |-> id, userId |-> currenGoal.userId,
                     targetType |-> Val(Coalesce(dto.targetType, Some(currenGoal.targetType))),
                     targetValue |-> IF "targetValue" \in dto.nulls THEN NULL
                                     ELSE Coalesce(dto.targetValue, currenGoal.targetValue),
                     startDate |-> IF dto.startDate # NULL THEN Val(dto.startDate)
                                   ELSE currenGoal.startDate,
                     endDate |-> IF "endDate" \in dto.nulls THEN NULL
                                 ELSE IF dto.endDate # NULL THEN dto.endDate
                                 ELSE currenGoal.endDate]
             IN  IF currenGoal.userId # userId
                 THEN resp' = Threw("goals.update", "Forbidden") /\ UNCHANGED <<storeVars, inflight>>
                 ELSE IF \/ validateDatesThrows(startIso, endIso)
                         \/ validateTargetThrows(type, val)
                 THEN resp' = Threw("goals.update", "BadRequest") /\ UNCHANGED <<storeVars, inflight>>
                 ELSE /\ goal' = (goal \ found) \cup {next}
                      /\ resp' = [op |-> "goals.update", status |-> "ok", id |-> id]
                      /\ UNCHANGED <<goalCheckin, streak, streakMember, streakCheckin,
                                     rankingEntry, inflight>>

-----------------------------------------------------------------------------
(* CheckinsService.  A goal check-in row is [goalId, userId, date, value,  *)
(* done], identified by its unique key (goalId, userId, date).             *)

\* normalizeDate: the same truncation as StatsService.normalizeDay
normalizeDate(t) == DateUTC(getUTCFullYear(t), getUTCMonth(t), getUTCDate(t))

\* validateAccordingToGoal: TRUE when it throws
validateAccordingToGoalThrows(type, dto) ==
    LET needsValue == type = "COUNT" \/ type = "WEEKLY"
    IN  IF needsValue
        THEN dto.value = NULL \/ Val(dto.value) < 1
        ELSE dto.value # NULL

\* the store's unique constraint on goal check-ins: TRUE when writing row
\* beside rows fails with P2002
P2002(rows, row) ==
    \E c \in rows :
        c.goalId = row.goalId /\ c.userId = row.userId /\ c.date = row.date

\* CheckinsService.create
CheckinsCreate(userId, dto) ==
    LET found == {g \in goal : g.id = dto.goalId}
    IN  IF found = {}
        THEN resp' = Threw("checkins.create", "NotFound") /\ UNCHANGED <<storeVars, inflight>>
        ELSE LET g    == CHOOSE x \in found : TRUE
                 date == normalizeDate(dto.date)
                 computedDone ==
                    IF g.targetType = "COUNT" \/ g.targetType = "WEEKLY"
                    THEN IF g.targetValue # NULL /\ Val(g.targetValue) # 0
                            /\ dto.value # NULL
                         THEN Val(dto.value) >= Val(g.targetValue)
                         ELSE Val(Coalesce(dto.done, Some(FALSE)))
                    ELSE Val(Coalesce(dto.done, Some(TRUE)))
                 row == [goalId |-> dto.goalId, userId |-> userId, date |-> date,
                         value |-> dto.value, done |-> computedDone]
                 dup == P2002(goalCheckin, row)
             IN  IF g.userId # userId
                 THEN resp' = Threw("checkins.create", "Forbidden") /\ UNCHANGED <<storeVars, inflight>>
                 ELSE IF \/ date < normalizeDate(g.startDate)
                         \/ (g.endDate # NULL /\ date > normalizeDate(Val(g.endDate)))
                         \/ validateAccordingToGoalThrows(g.targetType, dto)
                         \/ dup
                 THEN resp' = Threw("checkins.create", "BadRequest") /\ UNCHANGED <<storeVars, inflight>>
                 ELSE /\ goalCheckin' = goalCheckin \cup {row}
                      /\ resp' = [op |-> "checkins.create", status |-> "ok", row |-> row]
                      /\ UNCHANGED <<goal, streak, streakMember, streakCheckin,
                                     rankingEntry, inflight>>

-----------------------------------------------------------------------------
(* RankingsService.  A ranking row is [period, userId, score]; its extra   *)
(* column holds dto.metadata and is read by no computation.                *)

\* toInclusive.setHours(23, 59, 59, 999): the last instant of the local day
\* of t, for a server tz hours ahead of UTC; kept to the whole hour, which
\* compares alike with every stored date
setHoursEndOfDay(t, tz) == FloorDiv(t + tz, HoursPerDay) * HoursPerDay - tz + 23

InRange(date, from, toInclusive) == date >= from /\ date <= toInclusive

\* a variant of GoalWhere that leaves the value > 0 alternative out
GoalWhereDoneOnly(c, from, toInclusive) ==
    InRange(c.date, from, toInclusive) /\ c.done

\* the where clause of the goalCheckin.groupBy
GoalWhere(c, from, toInclusive) ==
    /\ InRange(c.date, from, toInclusive)
    /\ (c.done \/ (c.value # NULL /\ Val(c.value) > 0))

\* the where clause of the streakCheckin.groupBy
StreakWhere(c, from, toInclusive) ==
    InRange(c.date, from, toInclusive) /\ c.done

\* groupBy userId with _count: one group per user that has a matching row
GroupCount(rows) ==
    [u \in {c.userId : c \in rows} |-> Cardinality({c \in rows : c.userId = u})]

goalAgg(from, toInclusive) ==
    GroupCount({c \in goalCheckin : GoalWhere(c, from, toInclusive)})

streakAgg(from, toInclusive) ==
    GroupCount({c \in streakCheckin : StreakWhere(c, from, toInclusive)})

\* the two loops over goalAgg and streakAgg that fill scoresMap
scoresMap(gAgg, sAgg) ==
    [u \in DOMAIN gAgg \cup DOMAIN sAgg |->
        (IF u \in DOMAIN gAgg THEN gAgg[u] ELSE 0)
        + (IF u \in DOMAIN sAgg THEN sAgg[u] ELSE 0)]

entriesData(scores, period) ==
    {[period |-> period, userId |-> u, score |-> scores[u]] :
        u \in {x \in DOMAIN scores : scores[x] > 0}}

\* a variant of deleteMany that removes no row
deleteManyNothing(period) == {}

\* rankingEntry.deleteMany({ where: { period } }): the rows it removes
deleteMany(period) == {e \in rankingEntry : e.period = period}

\* findMany ordered by score desc: every order of the rows the store may
\* return, rows of equal score in any order
RECURSIVE OrderedByScoreDesc(_)
OrderedByScoreDesc(S) ==
    IF S = {} THEN {<<>>}
    ELSE UNION {{<<e>> \o t : t \in OrderedByScoreDesc(S \ {e})} :
                    e \in {x \in S : \A y \in S : x.score >= y.score}}

\* a variant of notification that says RANKING_RESULT for every rank
notificationFlat(entry, index, period, totalUsers, failing) ==
    [userId |-> entry.userId, type |-> "RANKING_RESULT", period |-> period,
     rank |-> index + 1, score |-> entry.score, totalUsers |-> totalUsers,
     delivered |-> entry.userId \notin failing]

\* the createForUser call for rankings[index]; index is 0-based in the code
notification(entry, index, period, totalUsers, failing) ==
    LET rank   == index + 1
        isTop3 == rank <= 3
    IN  [userId |-> entry.userId,
         type |-> IF isTop3 THEN "RANKING_TOP3" ELSE "RANKING_RESULT",
         period |-> period, rank |-> rank, score |-> entry.score,
         totalUsers |-> totalUsers,
         delivered |-> entry.userId \notin failing]

\* RankingsService.compute.  failing: the users whose createForUser promise
\* rejects.  Promise.all rejects as soon as one of its promises does, and the
\* await then throws out of compute; every createForUser call has been made
\* by then (rankings.map runs to its end before the await).  The response
\* carries the createForUser calls made (notified) beside what compute
\* returned (result).
Compute(dto, tz, failing) ==
    LET from        == dto.from
        toInclusive == setHoursEndOfDay(dto.to, tz)
        scores      == scoresMap(goalAgg(from, toInclusive), streakAgg(from, toInclusive))
        deleted     == deleteMany(dto.period)
        data        == entriesData(scores, dto.period)
        \* the request, and how many of the rows deleteMany removed are not
        \* rows of this run
        call        == [dto |-> dto, tz |-> tz, stale |-> Cardinality(deleted \ data)]
    IN  IF data = {}
        THEN /\ rankingEntry' = rankingEntry \ deleted
             /\ resp' = [op |-> "compute", status |-> "ok", kind |-> "early",
                         call |-> call, notified |-> {},
                         result |-> [period |-> dto.period, entries |-> <<>>]]
             /\ UNCHANGED <<goal, goalCheckin, streak, streakMember, streakCheckin, inflight>>
        ELSE /\ rankingEntry' = (rankingEntry \ deleted) \cup data
             /\ \E rankings \in OrderedByScoreDesc(
                        {e \in rankingEntry' : e.period = dto.period}) :
                  LET totalUsers == Len(rankings)
                      notified   ==
                        {notification(rankings[i], i - 1, dto.period, totalUsers, failing) :
                            i \in 1 .. totalUsers}
                  IN  resp' =
                            IF \E i \in 1 .. totalUsers : rankings[i].userId \in failing
                            THEN [op |-> "compute", status |-> "threw", kind |-> "rejected",
                                  call |-> call, notified |-> notified, result |-> <<>>]
                            ELSE [op |-> "compute", status |-> "ok", kind |-> "full",
                                  call |-> call, notified |-> notified,
                                  result |-> [period |-> dto.period, from |-> from,
                                              to |-> toInclusive, totalUsers |-> totalUsers,
                                              rankings |-> rankings]]
             /\ UNCHANGED <<goal, goalCheckin, streak, streakMember, streakCheckin, inflight>>

-----------------------------------------------------------------------------
(* SpecRank: u1 and u3 own a goal each (DAILY, and COUNT with target 2),   *)
(* u2, u3 and u4 are the members of one streak; they check in, and the     *)
(* leaderboard of the period is computed again and again.  Goal check-ins  *)
(* fall on day R1, streak check-ins on day R2.                             *)

RankUsers == {"u1", "u2", "u3", "u4"}

RankPeriod == "2024-W09"

R1 == DateUTC(2024, 1, 28)
R2 == DateUTC(2024, 1, 29)

\* [from, to] of the compute DTO and the server's offset from UTC
RankCalls ==
    {[from |-> R1, to |-> R1, tz |-> 0],
     [from |-> R1, to |-> R2 + 9, tz |-> 0],
     [from |-> R1 + 13, to |-> R2, tz |-> -6],
     [from |-> R2, to |-> R1, tz |-> 0]}

\* the goal check-in requests: u1 on its DAILY goal (done by default, or
\* not done), u3 on its COUNT goal (below the target, at the target), and
\* two that are refused
RankCheckins ==
    {[userId |-> "u1", dto |-> [goalId |-> "g1", date |-> R1 + 7, value |-> NULL, done |-> d]] :
        d \in {NULL, Some(FALSE)}}
    \cup
    {[userId |-> "u3", dto |-> [goalId |-> "g3", date |-> R1 + 7, value |-> Some(v), done |-> NULL]] :
        v \in {1, 2}}
    \cup
    {[userId |-> "u2", dto |-> [goalId |-> "g3", date |-> R1, value |-> Some(1), done |-> NULL]],
     [userId |-> "u1", dto |-> [goalId |-> "g1", date |-> R1, value |-> Some(1), done |-> NULL]]}

InitRank ==
    /\ inflight = NoInflight
    /\ goal = {[id |-> "g1", userId |-> "u1", targetType |-> "DAILY",
                targetValue |-> NULL, startDate |-> R1 - 15, endDate |-> NULL],
               [id |-> "g3", userId |-> "u3", targetType |-> "COUNT",
                targetValue |-> Some(2), startDate |-> R1 - 15, endDate |-> NULL]}
    /\ goalCheckin = {}
    /\ streak = {[id |-> "s1", createdById |-> "u2", startDate |-> R1,
                  endDate |-> NULL]}
    /\ streakMember = {[streakId |-> "s1", userId |-> u,
                        role |-> IF u = "u2" THEN "OWNER" ELSE "MEMBER"] :
                            u \in {"u2", "u3", "u4"}}
    /\ streakCheckin = {}
    /\ rankingEntry = {}
    /\ resp = NoResp

NextRank ==
    \/ \E c \in RankCheckins : CheckinsCreate(c.userId, c.dto)
    \/ \E u \in RankUsers, done \in {NULL, Some(FALSE)} :
          RecordCheckin(u, "s1", [date |-> R2 + 20, done |-> done])
    \/ \E c \in RankCalls, failing \in {{}, {"u3"}} :
          Compute([period |-> RankPeriod, from |-> c.from, to |-> c.to], c.tz, failing)

SpecRank == InitRank /\ [][NextRank]_vars

\* the leaderboard persisted for a period
PeriodEntries(period) == {e \in rankingEntry : e.period = period}

\* the range of the last compute request
RespFrom == resp.call.dto.from
RespTo == setHoursEndOfDay(resp.call.dto.to, resp.call.tz)

\* C1: after compute, the entries persisted for the period are exactly the
\* entries this run computed from the check-ins in its range, whatever was
\* persisted for the period before; none of an earlier run's entries survives.
C1_ReplacesLeaderboard ==
    resp.op = "compute" =>
        PeriodEntries(resp.call.dto.period)
            = entriesData(scoresMap(goalAgg(RespFrom, RespTo), streakAgg(RespFrom, RespTo)),
                          resp.call.dto.period)

\* a run that removed rows of an earlier run which it did not compute again,
\* and wrote its own
C1_Witness ==
    /\ resp.op = "compute"
    /\ resp.call.stale > 0
    /\ PeriodEntries(resp.call.dto.period) # {}

\* the qualifying check-ins of a user in the range of the last compute
GoalCount(u) ==
    Cardinality({c \in goalCheckin :
        /\ c.userId = u
        /\ RespFrom <= c.date /\ c.date <= RespTo
        /\ (c.done = TRUE \/ (c.value # NULL /\ Val(c.value) > 0))})

StreakCount(u) ==
    Cardinality({c \in streakCheckin :
        /\ c.userId = u
        /\ RespFrom <= c.date /\ c.date <= RespTo
        /\ c.done = TRUE})

\* C2: every user's persisted score is the number of its qualifying goal
\* check-ins plus the number of its done streak check-ins in the range; a user
\* with a sum of 0 has no entry, a user with a positive sum has exactly one.
C2_ScoreIsSumOfCounts ==
    resp.op = "compute" =>
        \A u \in RankUsers :
            LET mine == {e \in PeriodEntries(resp.call.dto.period) : e.userId = u}
                sum  == GoalCount(u) + StreakCount(u)
            IN  IF sum = 0 THEN mine = {}
                ELSE Cardinality(mine) = 1 /\ \A e \in mine : e.score = sum

\* a user scored on both sources, and a user with check-ins but none that
\* qualifies, who is left out
C2_Witness ==
    /\ resp.op = "compute"
    /\ GoalCount("u3") = 1 /\ StreakCount("u3") = 1
    /\ \E e \in rankingEntry : e.userId = "u3" /\ e.score = 2
    /\ \E c \in goalCheckin : c.userId = "u1" /\ c.date >= RespFrom /\ c.date <= RespTo
    /\ \A e \in rankingEntry : e.userId # "u1"

\* C3: ranks are 1..n by position in non-increasing score order, without gaps
\* or repeats on ties; one notification per ranked entry, RANKING_TOP3 exactly
\* when rank <= 3 and RANKING_RESULT otherwise, carrying the entry's rank and
\* score and totalUsers = n.
C3_RanksAndNotifications ==
    (resp.op = "compute" /\ resp.kind # "early") =>
        LET E == PeriodEntries(resp.call.dto.period)
            n == Cardinality(E)
            N == resp.notified
        IN  /\ Cardinality(N) = n
            /\ \A i \in 1 .. n : Cardinality({c \in N : c.rank = i}) = 1
            /\ \A e \in E :
                  Cardinality({c \in N : c.userId = e.userId /\ c.score = e.score}) = 1
            /\ \A c, d \in N : c.rank < d.rank => c.score >= d.score
            /\ \A c \in N :
                  /\ c.rank \in 1 .. n
                  /\ c.totalUsers = n
                  /\ c.period = resp.call.dto.period
                  /\ c.type = (IF c.rank <= 3 THEN "RANKING_TOP3" ELSE "RANKING_RESULT")
            /\ resp.kind = "full" =>
                  /\ resp.result.totalUsers = n
                  /\ Len(resp.result.rankings) = n
                  /\ \A c \in N :
                        /\ resp.result.rankings[c.rank].userId = c.userId
                        /\ resp.result.rankings[c.rank].score = c.score

\* four ranked users with scores 2, 1, 1, 1: the tied ones get ranks 2, 3, 4
\* and the fourth is the only RANKING_RESULT
C3_Witness ==
    /\ resp.op = "compute" /\ resp.kind = "full"
    /\ resp.result.totalUsers = 4
    /\ resp.result.rankings[1].score = 2
    /\ \A i \in 2 .. 4 : resp.result.rankings[i].score = 1
    /\ \E c \in resp.notified : c.rank = 4 /\ c.type = "RANKING_RESULT"
    /\ \E c \in resp.notified : c.rank = 3 /\ c.type = "RANKING_TOP3"

\* C4: when the dispatch to one ranked user fails, compute still returns its
\* leaderboard result, the other ranked users are still notified and the
\* leaderboard stays as written.
C4_DispatchFailureIsolated ==
    (resp.op = "compute" /\ \E c \in resp.notified : ~c.delivered) =>
        /\ resp.status = "ok" /\ resp.kind = "full"
        /\ \A e \in PeriodEntries(resp.call.dto.period) :
              \E c \in resp.notified : c.userId = e.userId
        /\ PeriodEntries(resp.call.dto.period)
              = entriesData(scoresMap(goalAgg(RespFrom, RespTo), streakAgg(RespFrom, RespTo)),
                            resp.call.dto.period)

-----------------------------------------------------------------------------
(* StatsService.goalProgress.  A completion is NULL or Some of the         *)
(* fraction [num, den] the code divides, den > 0.                          *)

DefaultRangeDays == 30

\* resolveRange: [from, to], or NULL when it throws (from > to); q.from and
\* q.to are options, now is the clock
resolveRange(q, now) ==
    LET defaultFrom == now - DefaultRangeDays * HoursPerDay
        from == IF q.from # NULL THEN normalizeDay(Val(q.from)) ELSE normalizeDay(defaultFrom)
        to   == IF q.to # NULL THEN normalizeDay(Val(q.to)) ELSE normalizeDay(now)
    IN  IF from > to THEN NULL ELSE Some([from |-> from, to |-> to])

\* checkins.reduce((acc, c) => acc + (c.value ?? 0), 0)
RECURSIVE SumValues(_)
SumValues(rows) ==
    IF rows = {} THEN 0
    ELSE LET c == CHOOSE x \in rows : TRUE
         IN  (IF c.value # NULL THEN Val(c.value) ELSE 0) + SumValues(rows \ {c})

\* a variant of dailyCompletion that leaves the + 1 of totalDays out
dailyCompletionExclusive(g, to, doneDays) ==
    LET goalStart == normalizeDay(g.startDate)
        rawEnd    == IF g.endDate # NULL THEN Val(g.endDate) ELSE to
        goalEnd   == normalizeDay(rawEnd)
    IN  IF goalEnd >= goalStart
        THEN LET totalDays == FloorDiv(goalEnd - goalStart, HoursPerDay)
             IN  IF totalDays > 0
                 THEN Some([num |-> Min2(doneDays, totalDays), den |-> totalDays])
                 ELSE NULL
        ELSE NULL

\* the DAILY branch of goalProgress
dailyCompletion(g, to, doneDays) ==
    LET goalStart == normalizeDay(g.startDate)
        rawEnd    == IF g.endDate # NULL THEN Val(g.endDate) ELSE to
        goalEnd   == normalizeDay(rawEnd)
    IN  IF goalEnd >= goalStart
        THEN LET diffMs    == goalEnd - goalStart
                 totalDays == FloorDiv(diffMs, HoursPerDay) + 1
             IN  IF totalDays > 0
                 THEN Some([num |-> Min2(doneDays, totalDays), den |-> totalDays])
                 ELSE NULL
        ELSE NULL

\* a variant of targetCompletion without the Math.min(1, ...)
targetCompletionUncapped(target, valueSum) ==
    IF target # NULL /\ Val(target) # 0 /\ Val(target) > 0
    THEN Some([num |-> valueSum, den |-> Val(target)])
    ELSE NULL

\* the branch of every other target type: Math.min(1, valueSum / target)
targetCompletion(target, valueSum) ==
    IF target # NULL /\ Val(target) # 0 /\ Val(target) > 0
    THEN IF valueSum >= Val(target) THEN Some([num |-> 1, den |-> 1])
         ELSE Some([num |-> valueSum, den |-> Val(target)])
    ELSE NULL

\* StatsService.goalProgress
GoalProgress(userId, goalId, q, now) ==
    LET found == {g \in goal : g.id = goalId}
        range == resolveRange(q, now)
    IN  /\ IF found = {}
           THEN resp' = Threw("goalProgress", "NotFound")
           ELSE IF (CHOOSE g \in found : TRUE).userId # userId
           THEN resp' = Threw("goalProgress", "Forbidden")
           ELSE IF range = NULL
           THEN resp' = Threw("goalProgress", "Forbidden")
           ELSE LET g        == CHOOSE x \in found : TRUE
                    from     == Val(range).from
                    to       == Val(range).to
                    checkins == {c \in goalCheckin :
                                    /\ c.goalId = goalId /\ c.userId = userId
                                    /\ c.date >= from /\ c.date <= to}
                    doneCheckins == {c \in checkins :
                                        c.done \/ (c.value # NULL /\ Val(c.value) > 0)}
                    valueSum == SumValues(checkins)
                    doneDays == Cardinality({normalizeDay(c.date) : c \in doneCheckins})
                    target   == g.targetValue
                    completion ==
                        IF g.targetType = "DAILY" THEN dailyCompletion(g, to, doneDays)
                        ELSE targetCompletion(target, valueSum)
                IN  resp' = [op |-> "goalProgress", status |-> "ok", goalId |-> goalId,
                             targetType |-> g.targetType, targetValue |-> target,
                             from |-> from, to |-> to,
                             totalCheckins |-> Cardinality(checkins),
                             doneCount |-> Cardinality(doneCheckins),
                             valueSum |-> valueSum, completion |-> completion]
        /\ UNCHANGED <<storeVars, inflight>>

-----------------------------------------------------------------------------
(* SpecGoal: one goal of u1 is created and updated, u1 checks in on the    *)
(* days of a span, and the progress of the goal is asked for.              *)

GoalSpanDays == 2

GoalFirstDay == DaysFromCivil(2024, 1, 1)

\* G(0) is the day before the goal starts, G(1) its first day
G(i) == (GoalFirstDay + i - 1) * HoursPerDay

GoalNow == G(GoalSpanDays + 1) + 10

GoalCreateDtos ==
    [targetType : TargetTypes, targetValue : {NULL, Some(4)},
     startDate : {G(1) + 9}, endDate : {NULL}]

\* an update changes the target type, or the target value (to 4, or to
\* null), or the end date (to the goal's first day, or to null)
GoalUpdateDtos ==
    {[targetType |-> t, targetValue |-> NULL, startDate |-> NULL, endDate |-> NULL,
      nulls |-> {}] : t \in {Some(x) : x \in TargetTypes}}
    \cup
    {[targetType |-> NULL, targetValue |-> v, startDate |-> NULL, endDate |-> NULL,
      nulls |-> IF v = NULL THEN {"targetValue"} ELSE {}] : v \in {NULL, Some(4)}}
    \cup
    {[targetType |-> NULL, targetValue |-> NULL, startDate |-> NULL, endDate |-> e,
      nulls |-> IF e = NULL THEN {"endDate"} ELSE {}] : e \in {NULL, Some(G(1) + 20)}}

\* a check-in is done by default, not done, or carries the value 3
GoalCheckinDtos ==
    {[goalId |-> "g1", date |-> G(i) + 7, value |-> c[1], done |-> c[2]] :
        i \in 0 .. GoalSpanDays,
        c \in {<<NULL, NULL>>, <<NULL, Some(FALSE)>>, <<Some(3), NULL>>}}

GoalQueries ==
    [from : {NULL, Some(G(2) + 3)}, to : {NULL, Some(G(0) + 3), Some(G(1))}]

InitGoal == EmptyStore /\ resp = NoResp /\ inflight = NoInflight

NextGoal ==
    \/ \E dto \in GoalCreateDtos : GoalsCreate("u1", "g1", dto)
    \/ \E dto \in GoalUpdateDtos : GoalsUpdate("u1", "g1", dto)
    \/ \E dto \in GoalCheckinDtos : CheckinsCreate("u1", dto)
    \/ \E u \in Users, q \in GoalQueries : GoalProgress(u, "g1", q, GoalNow)

SpecGoal == InitGoal /\ [][NextGoal]_vars

\* the goal the last goalProgress answered for, and its check-ins in the
\* answered range
RespGoal == CHOOSE g \in goal : g.id = resp.goalId

RespCheckins ==
    {c \in goalCheckin :
        /\ c.goalId = resp.goalId /\ c.userId = RespGoal.userId
        /\ resp.from <= c.date /\ c.date <= resp.to}

\* the distinct calendar days of the active check-ins
ActiveDayCount ==
    Cardinality({EpochDay(c.date) : c \in {x \in RespCheckins :
        x.done = TRUE \/ (x.value # NULL /\ Val(x.value) > 0)}})

\* equality of a completion with the fraction a / b
IsFraction(completion, a, b) ==
    completion # NULL /\ Val(completion).num * b = a * Val(completion).den

\* C6: for a DAILY goal, completion = min(doneDays, totalDays) / totalDays,
\* totalDays counted inclusively from the goal's start day to its end day (the
\* range end when it has no end date), and null when that end is before the
\* start.
C6_DailyCompletion ==
    (resp.op = "goalProgress" /\ resp.status = "ok" /\ resp.targetType = "DAILY") =>
        LET startDay  == EpochDay(RespGoal.startDate)
            endDay    == IF RespGoal.endDate # NULL THEN EpochDay(Val(RespGoal.endDate))
                         ELSE EpochDay(resp.to)
            totalDays == endDay - startDay + 1
        IN  IF endDay < startDay THEN resp.completion = NULL
            ELSE IsFraction(resp.completion, Min2(ActiveDayCount, totalDays), totalDays)

\* a DAILY goal of three days with one active day (1/3), and one whose range
\* ends before it starts (null)
C6_Witness ==
    /\ resp.op = "goalProgress" /\ resp.status = "ok" /\ resp.targetType = "DAILY"
    /\ RespGoal.endDate = NULL
    /\ ActiveDayCount = 1
    /\ resp.completion = Some([num |-> 1, den |-> 3])

C6_WitnessNull ==
    /\ resp.op = "goalProgress" /\ resp.status = "ok" /\ resp.targetType = "DAILY"
    /\ resp.to < normalizeDay(RespGoal.startDate)
    /\ resp.completion = NULL

\* the sum of value over the check-ins in the range, absent values as 0
RECURSIVE ValueTotal(_)
ValueTotal(rows) ==
    IF rows = {} THEN 0
    ELSE LET c == CHOOSE x \in rows : TRUE
         IN  (IF c.value = NULL THEN 0 ELSE c.value[1]) + ValueTotal(rows \ {c})

\* C7: for a COUNT or WEEKLY goal with targetValue > 0, completion =
\* min(1, valueSum / targetValue), never above 1; without a positive
\* targetValue it is null.
C7_CountCompletion ==
    (resp.op = "goalProgress" /\ resp.status = "ok"
        /\ resp.targetType \in {"COUNT", "WEEKLY"}) =>
        LET t   == RespGoal.targetValue
            sum == ValueTotal(RespCheckins)
        IN  /\ resp.valueSum = sum
            /\ IF t # NULL /\ Val(t) > 0
               THEN /\ resp.completion # NULL
                    /\ Val(resp.completion).num <= Val(resp.completion).den
                    /\ IF sum >= Val(t) THEN IsFraction(resp.completion, 1, 1)
                       ELSE IsFraction(resp.completion, sum, Val(t))
               ELSE resp.completion = NULL

\* target 4 and check-ins worth 6: capped at 1
C7_Witness ==
    /\ resp.op = "goalProgress" /\ resp.status = "ok"
    /\ resp.targetType \in {"COUNT", "WEEKLY"}
    /\ RespGoal.targetValue = Some(4)
    /\ resp.valueSum = 6
    /\ resp.completion = Some([num |-> 1, den |-> 1])

\* C8: for every stored BOOLEAN goal, goalProgress returns completion null,
\* whatever check-ins exist and whatever targetValue the goal carries.
C8_BooleanCompletionNull ==
    (resp.op = "goalProgress" /\ resp.status = "ok" /\ resp.targetType = "BOOLEAN")
        => resp.completion = NULL

-----------------------------------------------------------------------------
(* StatsService.activityMetrics.  buckets is the Map of the code, from key *)
(* to bucket; the rows of a findMany are taken in any order, which the     *)
(* final sort by key erases.                                               *)

upsertBucket(buckets, key) ==
    IF key \in DOMAIN buckets THEN buckets
    ELSE buckets @@ (key :> [key |-> key, goalCheckins |-> 0, streakCheckins |-> 0,
                             total |-> 0])

\* a variant of goalIncrement that counts every check-in
goalIncrementAlways(c) == 1

\* bucket.goalCheckins += c.done || (c.value ?? 0) > 0 ? 1 : 0
goalIncrement(c) ==
    IF c.done \/ (IF c.value # NULL THEN Val(c.value) ELSE 0) > 0 THEN 1 ELSE 0

\* the loop over goalCheckins
RECURSIVE addGoalCheckins(_, _, _)
addGoalCheckins(buckets, rows, period) ==
    IF rows = {} THEN buckets
    ELSE LET c   == CHOOSE x \in rows : TRUE
             day == normalizeDay(c.date)
             key == bucketKey(day, period)
             b   == upsertBucket(buckets, key)
             g   == b[key].goalCheckins + goalIncrement(c)
         IN  addGoalCheckins(
                [b EXCEPT ![key].goalCheckins = g,
                          ![key].total = g + b[key].streakCheckins],
                rows \ {c}, period)

\* the loop over streakCheckins
RECURSIVE addStreakCheckins(_, _, _)
addStreakCheckins(buckets, rows, period) ==
    IF rows = {} THEN buckets
    ELSE LET c   == CHOOSE x \in rows : TRUE
             day == normalizeDay(c.date)
             key == bucketKey(day, period)
             b   == upsertBucket(buckets, key)
             n   == b[key].streakCheckins + 1
         IN  addStreakCheckins(
                [b EXCEPT ![key].streakCheckins = n,
                          ![key].total = b[key].goalCheckins + n],
                rows \ {c}, period)

\* Array.from(buckets.values()).sort((a, b) => a.key.localeCompare(b.key))
RECURSIVE sortByKey(_)
sortByKey(S) ==
    IF S = {} THEN <<>>
    ELSE LET m == CHOOSE x \in S : \A y \in S \ {x} : StrLess(x.key, y.key)
         IN  <<m>> \o sortByKey(S \ {m})

\* StatsService.activityMetrics; q.period is an option
ActivityMetrics(userId, q, now) ==
    LET range == resolveRange(q, now)
    IN  /\ IF range = NULL
           THEN resp' = Threw("activityMetrics", "Forbidden")
           ELSE LET from   == Val(range).from
                    to     == Val(range).to
                    period == IF q.period # NULL THEN Val(q.period) ELSE "day"
                    goalCheckins ==
                        {c \in goalCheckin :
                            c.userId = userId /\ c.date >= from /\ c.date <= to}
                    streakCheckins ==
                        {c \in streakCheckin :
                            c.userId = userId /\ c.date >= from /\ c.date <= to /\ c.done}
                    buckets ==
                        addStreakCheckins(
                            addGoalCheckins(<<>>, goalCheckins, period),
                            streakCheckins, period)
                    items  == sortByKey({buckets[k] : k \in DOMAIN buckets})
                IN  resp' = [op |-> "activityMetrics", status |-> "ok",
                             userId |-> userId, period |-> period,
                             from |-> from, to |-> to, buckets |-> items]
        /\ UNCHANGED <<storeVars, inflight>>

-----------------------------------------------------------------------------
(* SpecMetrics: u1 owns a DAILY and a COUNT goal and is, with u2, a member *)
(* of one streak; they check in on three days that lie in two weeks and    *)
(* two months, and u1's activity is bucketed.                              *)

MaxMetricRows == 3

\* a Sunday, the Monday after it, and the first day of the next month
MetricSunday == DateUTC(2024, 1, 25)

MetricMonday == DateUTC(2024, 1, 26)

MetricFirst == DateUTC(2024, 2, 1)

MetricDays == {MetricSunday, MetricMonday, MetricFirst}

MetricNow == DateUTC(2024, 2, 2) + 11

MetricCheckins ==
    {[goalId |-> "g1", date |-> d + 7, value |-> NULL, done |-> NULL] : d \in MetricDays}
    \cup
    {[goalId |-> "g1", date |-> MetricSunday, value |-> NULL, done |-> Some(FALSE)],
     [goalId |-> "g3", date |-> MetricMonday, value |-> Some(1), done |-> NULL]}

MetricStreakCheckins ==
    {[userId |-> "u1", dto |-> [date |-> d + 20, done |-> NULL]] : d \in MetricDays}
    \cup
    {[userId |-> "u1", dto |-> [date |-> MetricFirst, done |-> Some(FALSE)]],
     [userId |-> "u2", dto |-> [date |-> MetricMonday, done |-> NULL]]}

MetricQueries ==
    {[from |-> NULL, to |-> NULL, period |-> p] : p \in {NULL, Some("week"), Some("month")}}
    \cup
    {[from |-> Some(MetricMonday + 5), to |-> NULL, period |-> Some("week")],
     [from |-> NULL, to |-> Some(MetricMonday + 5), period |-> Some("month")],
     [from |-> Some(MetricFirst), to |-> Some(MetricMonday), period |-> NULL]}

InitMetrics ==
    /\ inflight = NoInflight
    /\ goal = {[id |-> "g1", userId |-> "u1", targetType |-> "DAILY",
                targetValue |-> NULL, startDate |-> DateUTC(2024, 1, 1) + 9,
                endDate |-> NULL],
               [id |-> "g3", userId |-> "u1", targetType |-> "COUNT",
                targetValue |-> Some(2), startDate |-> DateUTC(2024, 1, 1) + 9,
                endDate |-> NULL]}
    /\ goalCheckin = {}
    /\ streak = {[id |-> "s1", createdById |-> "u1",
                  startDate |-> DateUTC(2024, 1, 1), endDate |-> NULL]}
    /\ streakMember = {[streakId |-> "s1", userId |-> "u1", role |-> "OWNER"],
                       [streakId |-> "s1", userId |-> "u2", role |-> "MEMBER"]}
    /\ streakCheckin = {}
    /\ rankingEntry = {}
    /\ resp = NoResp

MetricRoom == Cardinality(goalCheckin) + Cardinality(streakCheckin) < MaxMetricRows

NextMetrics ==
    \/ \E dto \in MetricCheckins : MetricRoom /\ CheckinsCreate("u1", dto)
    \/ \E c \in MetricStreakCheckins :
          /\ MetricRoom \/ \E x \in streakCheckin :
                              x.userId = c.userId /\ x.date = normalizeDay(c.dto.date)
          /\ RecordCheckin(c.userId, "s1", c.dto)
    \/ \E q \in MetricQueries : ActivityMetrics("u1", q, MetricNow)

SpecMetrics == InitMetrics /\ [][NextMetrics]_vars

\* the check-ins of the answered user that fall in the answered range and
\* under a key
GoalRowsOfKey(key) ==
    {c \in goalCheckin :
        /\ c.userId = resp.userId /\ resp.from <= c.date /\ c.date <= resp.to
        /\ bucketKey(normalizeDay(c.date), resp.period) = key}

StreakRowsOfKey(key) ==
    {c \in streakCheckin :
        /\ c.userId = resp.userId /\ resp.from <= c.date /\ c.date <= resp.to
        /\ bucketKey(normalizeDay(c.date), resp.period) = key}

\* C10: every bucket has total = goalCheckins + streakCheckins, goalCheckins
\* = the user's active goal check-ins of the bucket, streakCheckins = the
\* user's done streak check-ins of the bucket; the buckets are in ascending
\* order of key, no key twice.
C10_Buckets ==
    (resp.op = "activityMetrics" /\ resp.status = "ok") =>
        LET B == resp.buckets
        IN  /\ \A i \in 1 .. Len(B) :
                  /\ B[i].total = B[i].goalCheckins + B[i].streakCheckins
                  /\ B[i].goalCheckins =
                        Cardinality({c \in GoalRowsOfKey(B[i].key) :
                            c.done = TRUE \/ (c.value # NULL /\ Val(c.value) > 0)})
                  /\ B[i].streakCheckins =
                        Cardinality({c \in StreakRowsOfKey(B[i].key) : c.done = TRUE})
            /\ \A i, j \in 1 .. Len(B) : i < j => StrLess(B[i].key, B[j].key)

\* two buckets: one that counts a goal and a streak check-in, one made by a
\* check-in that is not active and counts nothing
C10_Witness ==
    /\ resp.op = "activityMetrics" /\ resp.status = "ok"
    /\ Len(resp.buckets) = 2
    /\ \E i \in 1 .. 2 : resp.buckets[i].goalCheckins = 1 /\ resp.buckets[i].total = 2
    /\ \E i \in 1 .. 2 : resp.buckets[i].total = 0

-----------------------------------------------------------------------------
(* normalizeDay on its string argument.  An ISO 8601 string is the calendar *)
(* day and the hour it writes, and its zone designator: "date" for a        *)
(* date-only string, "Z", "local" for a date-time without designator, or    *)
(* "offset" with the hours of a numeric offset.                             *)

\* new Date(iso): a date-only string and a Z string are UTC, a string with no
\* designator is local time (tz = hours the server is east of UTC), a
\* numeric offset is taken off the written time
parseIso(iso, tz) ==
    IF iso.zone = "date" THEN iso.day * HoursPerDay
    ELSE IF iso.zone = "Z" THEN iso.day * HoursPerDay + iso.hour
    ELSE IF iso.zone = "local" THEN iso.day * HoursPerDay + iso.hour - tz
    ELSE iso.day * HoursPerDay + iso.hour - iso.offset

\* Date.toISOString()
toISOString(t) ==
    [day |-> EpochDay(t), hour |-> t % HoursPerDay, zone |-> "Z", offset |-> 0]

\* SpecDay: normalizeDay applied to two strings, and again to its own result
DaySpanDays == 2

DayFirstDay == DaysFromCivil(2024, 2, 29)

DayHours == {0, 9, 23}

DayZones == {<<"Z", 0>>, <<"local", 0>>, <<"offset", -5>>}

ServerZones == {0, -6}

IsoInputs ==
    {[day |-> DayFirstDay + i, hour |-> 0, zone |-> "date", offset |-> 0] :
        i \in 0 .. (DaySpanDays - 1)}
    \cup
    {[day |-> DayFirstDay + i, hour |-> h, zone |-> z[1], offset |-> z[2]] :
        i \in 0 .. (DaySpanDays - 1), h \in DayHours, z \in DayZones}

InitDay ==
    /\ inflight = NoInflight
    /\ EmptyStore
    /\ \E a \in IsoInputs, b \in IsoInputs, tz \in ServerZones :
          resp = [op |-> "normalizeDay.call", a |-> a, b |-> b, tz |-> tz]

NormalizeDayCall ==
    /\ resp.op = "normalizeDay.call"
    /\ resp' = [op |-> "normalizeDay", a |-> resp.a, b |-> resp.b, tz |-> resp.tz,
                ra |-> normalizeDay(parseIso(resp.a, resp.tz)),
                rb |-> normalizeDay(parseIso(resp.b, resp.tz)),
                again |-> normalizeDay(parseIso(
                            toISOString(normalizeDay(parseIso(resp.a, resp.tz))),
                            resp.tz))]
    /\ UNCHANGED <<storeVars, inflight>>

NextDay == NormalizeDayCall

SpecDay == InitDay /\ [][NextDay]_vars

\* C11: two strings that write the same calendar day, at any times of day,
\* normalize to the same value, midnight UTC of that day; normalizing a
\* normalized day returns it unchanged.
C11_SameCivilDate ==
    resp.op = "normalizeDay" =>
        /\ resp.a.day = resp.b.day =>
              /\ resp.ra = resp.rb
              /\ resp.ra = resp.a.day * HoursPerDay
        /\ resp.again = resp.ra

\* C11 restricted to what the code does keep: strings that are date-only or
\* end in Z, and the second normalization
C11_UtcInputsOnly ==
    resp.op = "normalizeDay" =>
        /\ (resp.a.zone \in {"date", "Z"} /\ resp.b.zone \in {"date", "Z"}
            /\ resp.a.day = resp.b.day) =>
              /\ resp.ra = resp.rb
              /\ resp.ra = resp.a.day * HoursPerDay
        /\ resp.again = resp.ra

-----------------------------------------------------------------------------
(* SpecRange: resolveRange applied to a query at a time of the clock.      *)

RangeSpanDays == 40

RangeFirstDay == DaysFromCivil(2024, 2, 10)

RangeHours == {0, 11, 23}

\* the values new Date() may have
RangeClock ==
    {(RangeFirstDay + i) * HoursPerDay + h : i \in 0 .. (RangeSpanDays - 1), h \in RangeHours}

RangeQueries ==
    {[from |-> f, to |-> t] :
        f \in {NULL, Some(DateUTC(2024, 1, 20) + 7)},
        t \in {NULL, Some(DateUTC(2024, 1, 15) + 7), Some(DateUTC(2024, 2, 25))}}

InitRange ==
    /\ inflight = NoInflight
    /\ EmptyStore
    /\ \E q \in RangeQueries, now \in RangeClock :
          resp = [op |-> "resolveRange.call", q |-> q, now |-> now]

ResolveRangeCall ==
    /\ resp.op = "resolveRange.call"
    /\ LET range == resolveRange(resp.q, resp.now)
       IN  resp' = IF range = NULL
                   THEN [op |-> "resolveRange", status |-> "Forbidden",
                         q |-> resp.q, now |-> resp.now]
                   ELSE [op |-> "resolveRange", status |-> "ok",
                         q |-> resp.q, now |-> resp.now,
                         from |-> Val(range).from, to |-> Val(range).to]
    /\ UNCHANGED <<storeVars, inflight>>

NextRange == ResolveRangeCall

SpecRange == InitRange /\ [][NextRange]_vars

\* the number of days from a to b, both counted
DaysInclusive(a, b) == (b - a) \div HoursPerDay + 1

\* C12: with neither from nor to, resolveRange returns to = normalizeDay(now)
\* and a window of 30 days, both endpoints counted.
C12_DefaultWindowIs30Days ==
    (resp.op = "resolveRange" /\ resp.q.from = NULL /\ resp.q.to = NULL) =>
        /\ resp.status = "ok"
        /\ resp.to = normalizeDay(resp.now)
        /\ DaysInclusive(resp.from, resp.to) = 30

\* what the code returns instead: the same end, and 31 days
C12_DefaultWindowIs31Days ==
    (resp.op = "resolveRange" /\ resp.q.from = NULL /\ resp.q.to = NULL) =>
        /\ resp.status = "ok"
        /\ resp.to = normalizeDay(resp.now)
        /\ DaysInclusive(resp.from, resp.to) = 31

-----------------------------------------------------------------------------
(* Properties of the goal store under SpecGoal.                            *)

\* C13: every stored COUNT or WEEKLY goal has a targetValue, and it is >= 1.
C13_TargetPresent ==
    \A g \in goal :
        g.targetType \in {"COUNT", "WEEKLY"} =>
            g.targetValue # NULL /\ Val(g.targetValue) >= 1

-----------------------------------------------------------------------------
(* CheckinsService.update and remove.  The id of a check-in is given by the *)
(* row it denotes: current is Some of that row, or NULL for an id that no   *)
(* row has.  dto.date, dto.value and dto.done are options.                  *)

\* throw new BadRequestException(message)
BadRequest(op, message) == [op |-> op, status |-> "BadRequest", message |-> message]

\* computedDone of update
updateDone(g, cur, dto) ==
    IF dto.done # NULL THEN Val(dto.done)
    ELSE IF g.targetType = "COUNT" \/ g.targetType = "WEEKLY"
    THEN LET value == Coalesce(dto.value, cur.value)
         IN  IF value # NULL /\ g.targetValue # NULL /\ Val(g.targetValue) # 0
             THEN Val(value) >= Val(g.targetValue)
             ELSE cur.done
    ELSE cur.done

\* CheckinsService.update
CheckinsUpdate(userId, current, dto) ==
    IF current = NULL
    THEN resp' = Threw("checkins.update", "NotFound") /\ UNCHANGED <<storeVars, inflight>>
    ELSE IF Val(current).userId # userId
    THEN resp' = Threw("checkins.update", "Forbidden") /\ UNCHANGED <<storeVars, inflight>>
    ELSE IF {g \in goal : g.id = Val(current).goalId} = {}
    THEN resp' = Threw("checkins.update", "NotFound") /\ UNCHANGED <<storeVars, inflight>>
    ELSE \E cur \in {Val(current)} : \E g \in {x \in goal : x.id = cur.goalId} :
         \E nextDate \in {IF dto.date # NULL THEN Some(normalizeDate(Val(dto.date)))
                          ELSE NULL} :
         \E next \in {[goalId |-> cur.goalId, userId |-> cur.userId,
                       date |-> IF nextDate # NULL THEN Val(nextDate) ELSE cur.date,
                       value |-> IF dto.value = NULL THEN cur.value ELSE dto.value,
                       done |-> updateDone(g, cur, dto)]} :
            IF validateAccordingToGoalThrows(g.targetType, dto)
            THEN /\ resp' = BadRequest("checkins.update", "value")
                 /\ UNCHANGED <<storeVars, inflight>>
            ELSE IF nextDate # NULL /\ Val(nextDate) < normalizeDate(g.startDate)
            THEN /\ resp' = BadRequest("checkins.update", "date antes de startDate")
                 /\ UNCHANGED <<storeVars, inflight>>
            ELSE IF /\ nextDate # NULL /\ g.endDate # NULL
                    /\ Val(nextDate) > normalizeDate(Val(g.endDate))
            THEN /\ resp' = BadRequest("checkins.update", "date despues de endDate")
                 /\ UNCHANGED <<storeVars, inflight>>
            ELSE IF P2002(goalCheckin \ {cur}, next)
            THEN /\ resp' = BadRequest("checkins.update", "Ya existe un checkin")
                 /\ UNCHANGED <<storeVars, inflight>>
            ELSE /\ goalCheckin' = (goalCheckin \ {cur}) \cup {next}
                 /\ resp' = [op |-> "checkins.update", status |-> "ok", row |-> next]
                 /\ UNCHANGED <<goal, streak, streakMember, streakCheckin,
                                rankingEntry, inflight>>

\* CheckinsService.remove
CheckinsRemove(userId, current) ==
    IF current = NULL
    THEN resp' = Threw("checkins.remove", "NotFound") /\ UNCHANGED <<storeVars, inflight>>
    ELSE IF Val(current).userId # userId
    THEN resp' = Threw("checkins.remove", "Forbidden") /\ UNCHANGED <<storeVars, inflight>>
    ELSE /\ goalCheckin' = goalCheckin \ {Val(current)}
         /\ resp' = [op |-> "checkins.remove", status |-> "ok", row |-> Val(current)]
         /\ UNCHANGED <<goal, streak, streakMember, streakCheckin, rankingEntry, inflight>>

-----------------------------------------------------------------------------
(* SpecCheckin: u1 owns a DAILY goal and a streak and checks in on both,   *)
(* and updates and removes goal check-ins.                                 *)

CheckinSpanDays == 2

CheckinFirstDay == DaysFromCivil(2024, 4, 29)

\* the days 1 .. CheckinSpanDays, at midnight UTC
C(i) == (CheckinFirstDay + i) * HoursPerDay

CheckinCreateDtos ==
    {[goalId |-> "g1", date |-> C(i) + 8, value |-> NULL, done |-> x] :
        i \in 1 .. CheckinSpanDays, x \in {NULL, Some(FALSE)}}

CheckinUpdateDtos ==
    {[date |-> d, value |-> NULL, done |-> x] :
        d \in {NULL} \cup {Some(C(i) + 21) : i \in 1 .. CheckinSpanDays},
        x \in {NULL, Some(TRUE)}}

CheckinStreakDtos ==
    {[date |-> C(i) + 13, done |-> x] :
        i \in 1 .. CheckinSpanDays, x \in {NULL, Some(FALSE)}}

InitCheckin ==
    /\ inflight = NoInflight
    /\ goal = {[id |-> "g1", userId |-> "u1", targetType |-> "DAILY",
                targetValue |-> NULL, startDate |-> C(1) + 9, endDate |-> NULL]}
    /\ goalCheckin = {}
    /\ streak = {[id |-> "s1", createdById |-> "u1", startDate |-> C(1),
                  endDate |-> NULL]}
    /\ streakMember = {[streakId |-> "s1", userId |-> "u1", role |-> "OWNER"]}
    /\ streakCheckin = {}
    /\ rankingEntry = {}
    /\ resp = NoResp

NextCheckin ==
    \/ \E dto \in CheckinCreateDtos : CheckinsCreate("u1", dto)
    \/ \E cur \in goalCheckin, dto \in CheckinUpdateDtos :
          CheckinsUpdate("u1", Some(cur), dto)
    \/ \E cur \in goalCheckin : CheckinsRemove("u1", Some(cur))
    \/ \E dto \in CheckinStreakDtos : RecordCheckin("u1", "s1", dto)

SpecCheckin == InitCheckin /\ [][NextCheckin]_vars

\* at most one goal check-in per (goal, user, day) and one streak check-in
\* per (streak, user, day)
OnePerDay ==
    /\ \A a, b \in goalCheckin :
          (a.goalId = b.goalId /\ a.userId = b.userId /\ a.date = b.date) => a = b
    /\ \A a, b \in streakCheckin :
          (a.streakId = b.streakId /\ a.userId = b.userId /\ a.date = b.date) => a = b

\* a recordCheckin for a (streak, user, day) that has a record adds none, and
\* repeated after itself changes nothing
RecordCheckinUpdates ==
    \A dto \in CheckinStreakDtos :
        RecordCheckin("u1", "s1", dto) =>
            /\ resp'.status = "ok"
            /\ resp'.row \in streakCheckin'
            /\ (\E c \in streakCheckin : c.date = normalizeDay(dto.date))
                  => Cardinality(streakCheckin') = Cardinality(streakCheckin)
            /\ resp = resp' => streakCheckin' = streakCheckin

\* a create on a day that has a check-in of the goal fails and writes nothing
CreateOnTakenDayFails ==
    \A dto \in CheckinCreateDtos :
        (/\ CheckinsCreate("u1", dto)
         /\ \E c \in goalCheckin :
               c.goalId = dto.goalId /\ c.date = normalizeDate(dto.date))
            => resp'.status = "BadRequest" /\ goalCheckin' = goalCheckin

\* an update that moves a check-in to a day that has another check-in of the
\* goal fails and writes nothing
UpdateToTakenDayFails ==
    \A cur \in goalCheckin, dto \in CheckinUpdateDtos :
        (/\ CheckinsUpdate("u1", Some(cur), dto)
         /\ dto.date # NULL
         /\ \E c \in goalCheckin \ {cur} :
               c.goalId = cur.goalId /\ c.date = normalizeDate(Val(dto.date)))
            => resp'.status = "BadRequest" /\ goalCheckin' = goalCheckin

\* C14: at most one check-in per (subject, user, day) in every state;
\* recordCheckin on an existing (streak, user, day) updates its record and is
\* idempotent; a goal check-in create or update that would make a second
\* check-in on a day fails with BadRequest and leaves the check-ins unchanged.
C14_OneCheckinPerDay ==
    /\ []OnePerDay
    /\ [][RecordCheckinUpdates /\ CreateOnTakenDayFails /\ UpdateToTakenDayFails]_vars

\* an update was refused for its day being taken, with a check-in on each
\* day and a streak check-in that was recorded twice, last as not done
C14_Witness ==
    /\ resp.op = "checkins.update" /\ resp.status = "BadRequest"
    /\ resp.message = "Ya existe un checkin"
    /\ Cardinality(goalCheckin) = CheckinSpanDays
    /\ \E c \in streakCheckin : ~c.done

-----------------------------------------------------------------------------
(* The result of compute, under SpecRank.                                  *)

\* C15: whenever compute returns, also when nobody qualifies, the result
\* carries period, range, totalUsers and rankings; rankings is the persisted
\* leaderboard of the period in non-increasing score order and totalUsers is
\* its length.
C15_ResultShape ==
    (resp.op = "compute" /\ resp.status = "ok") =>
        /\ {"period", "from", "to", "totalUsers", "rankings"} \subseteq DOMAIN resp.result
        /\ resp.result.period = resp.call.dto.period
        /\ {resp.result.rankings[i] : i \in 1 .. Len(resp.result.rankings)}
              = PeriodEntries(resp.call.dto.period)
        /\ \A i \in 1 .. Len(resp.result.rankings) - 1 :
              resp.result.rankings[i].score >= resp.result.rankings[i + 1].score
        /\ resp.result.totalUsers = Len(resp.result.rankings)
        /\ resp.result.totalUsers = Cardinality(PeriodEntries(resp.call.dto.period))

\* C15 without the case where nobody qualifies: the shape the code returns
\* when at least one user has a score
C15_ResultShapeWhenRanked ==
    (resp.op = "compute" /\ resp.status = "ok" /\ resp.kind = "full") =>
        /\ DOMAIN resp.result = {"period", "from", "to", "totalUsers", "rankings"}
        /\ {resp.result.rankings[i] : i \in 1 .. Len(resp.result.rankings)}
              = PeriodEntries(resp.call.dto.period)
        /\ \A i \in 1 .. Len(resp.result.rankings) - 1 :
              resp.result.rankings[i].score >= resp.result.rankings[i + 1].score
        /\ resp.result.totalUsers = Len(resp.result.rankings)

-----------------------------------------------------------------------------
(* RankingsService.compute, await by await.  Each await of compute is one  *)
(* step; between two awaits of an invocation the steps of another may run. *)
(* inflight[p] holds where invocation p is and the locals it has so far.   *)

ComputeIds == {1, 2}

\* consts of compute that no await has filled yet
NoAgg == GroupCount({})

\* invocation p is at the await named at
At(p, at) == p \in DOMAIN inflight /\ inflight[p].pc = at

\* await this.prisma.goalCheckin.groupBy(...)
ComputeGoalAgg(p) ==
    /\ At(p, "goalAgg")
    /\ inflight' = [inflight EXCEPT
            ![p].gAgg = goalAgg(inflight[p].dto.from,
                                setHoursEndOfDay(inflight[p].dto.to, inflight[p].tz)),
            ![p].pc = "streakAgg"]
    /\ UNCHANGED <<storeVars, resp>>

\* await this.prisma.streakCheckin.groupBy(...)
ComputeStreakAgg(p) ==
    /\ At(p, "streakAgg")
    /\ inflight' = [inflight EXCEPT
            ![p].sAgg = streakAgg(inflight[p].dto.from,
                                  setHoursEndOfDay(inflight[p].dto.to, inflight[p].tz)),
            ![p].pc = "deleteMany"]
    /\ UNCHANGED <<storeVars, resp>>

\* await this.prisma.rankingEntry.deleteMany(...), then entriesData and the
\* early return when it is empty
ComputeDeleteMany(p) ==
    /\ At(p, "deleteMany")
    /\ rankingEntry' = rankingEntry \ deleteMany(inflight[p].dto.period)
    /\ \E data \in {entriesData(scoresMap(inflight[p].gAgg, inflight[p].sAgg),
                                inflight[p].dto.period)} :
          /\ inflight' = [inflight EXCEPT
                  ![p].data = data,
                  ![p].pc = IF data = {} THEN "done" ELSE "createMany"]
          /\ resp' = IF data = {}
                     THEN [op |-> "compute", status |-> "ok", kind |-> "early", by |-> p,
                           result |-> [period |-> inflight[p].dto.period, entries |-> <<>>]]
                     ELSE resp
    /\ UNCHANGED <<goal, goalCheckin, streak, streakMember, streakCheckin>>

\* await this.prisma.rankingEntry.createMany({ data: entriesData })
ComputeCreateMany(p) ==
    /\ At(p, "createMany")
    /\ rankingEntry' = rankingEntry \cup inflight[p].data
    /\ inflight' = [inflight EXCEPT ![p].pc = "findMany"]
    /\ UNCHANGED <<goal, goalCheckin, streak, streakMember, streakCheckin, resp>>

\* await this.prisma.rankingEntry.findMany(...)
ComputeFindMany(p) ==
    /\ At(p, "findMany")
    /\ \E rankings \in OrderedByScoreDesc(
              {e \in rankingEntry : e.period = inflight[p].dto.period}) :
          inflight' = [inflight EXCEPT ![p].rankings = rankings, ![p].pc = "notify"]
    /\ UNCHANGED <<storeVars, resp>>

\* await Promise.all(rankings.map(... createForUser ...)), then the return
ComputeNotify(p, failing) ==
    /\ At(p, "notify")
    /\ LET rankings   == inflight[p].rankings
           totalUsers == Len(rankings)
       IN  resp' =
             IF \E i \in 1 .. totalUsers : rankings[i].userId \in failing
             THEN [op |-> "compute", status |-> "threw", kind |-> "rejected", by |-> p,
                   result |-> <<>>]
             ELSE [op |-> "compute", status |-> "ok", kind |-> "full", by |-> p,
                   result |-> [period |-> inflight[p].dto.period,
                               from |-> inflight[p].dto.from,
                               to |-> setHoursEndOfDay(inflight[p].dto.to, inflight[p].tz),
                               totalUsers |-> totalUsers, rankings |-> rankings]]
    /\ inflight' = [inflight EXCEPT ![p].pc = "done"]
    /\ UNCHANGED storeVars

-----------------------------------------------------------------------------
(* SpecConc: two invocations of compute for the same period run at once    *)
(* over fixed check-ins: u1 has a done goal check-in on day R1, u2 a done  *)
(* streak check-in on day R2.                                              *)

\* the requests: day R1 only, day R2 only, both days, and an empty range
ConcCalls ==
    {[from |-> R1, to |-> R1], [from |-> R2, to |-> R2],
     [from |-> R1, to |-> R2], [from |-> R2, to |-> R1]}

Started(dto) ==
    [pc |-> "goalAgg", dto |-> [period |-> RankPeriod, from |-> dto.from, to |-> dto.to],
     tz |-> 0, gAgg |-> NoAgg, sAgg |-> NoAgg, data |-> {}, rankings |-> <<>>]

InitConc ==
    /\ goal = {[id |-> "g1", userId |-> "u1", targetType |-> "DAILY",
                targetValue |-> NULL, startDate |-> R1 - 15, endDate |-> NULL]}
    /\ goalCheckin = {[goalId |-> "g1", userId |-> "u1", date |-> R1,
                       value |-> NULL, done |-> TRUE]}
    /\ streak = {[id |-> "s1", createdById |-> "u2", startDate |-> R1,
                  endDate |-> NULL]}
    /\ streakMember = {[streakId |-> "s1", userId |-> "u2", role |-> "OWNER"]}
    /\ streakCheckin = {[streakId |-> "s1", userId |-> "u2", date |-> R2,
                         done |-> TRUE]}
    /\ rankingEntry = {}
    /\ resp = NoResp
    /\ \E calls \in [ComputeIds -> ConcCalls] :
          inflight = [p \in ComputeIds |-> Started(calls[p])]

NextConc ==
    \/ \E p \in ComputeIds : ComputeGoalAgg(p)
    \/ \E p \in ComputeIds : ComputeStreakAgg(p)
    \/ \E p \in ComputeIds : ComputeDeleteMany(p)
    \/ \E p \in ComputeIds : ComputeCreateMany(p)
    \/ \E p \in ComputeIds : ComputeFindMany(p)
    \/ \E p \in ComputeIds, failing \in {{}, {"u2"}} : ComputeNotify(p, failing)

SpecConc == InitConc /\ [][NextConc]_vars

\* C16: when both invocations have finished, the leaderboard of the period
\* has at most one entry per user and is the entry set one of the two
\* computed.
C16_ConcurrentReplace ==
    (\A p \in ComputeIds : inflight[p].pc = "done") =>
        /\ \A a, b \in PeriodEntries(RankPeriod) : a.userId = b.userId => a = b
        /\ \E p \in ComputeIds : PeriodEntries(RankPeriod) = inflight[p].data

-----------------------------------------------------------------------------
(* SpecWindow: the goal g1 of u1 is created, its dates are updated, and u1 *)
(* creates, updates and removes check-ins on the days of the span.         *)

\* the goal starts on the first day and has no end, or ends on the last day
WindowCreateDtos ==
    [targetType : {"DAILY"}, targetValue : {NULL}, startDate : {C(1) + 9},
     endDate : {NULL, Some(C(CheckinSpanDays) + 5)}]

\* an update moves the start to the last day, or the end to the first day,
\* or removes the end
WindowUpdateDtos ==
    {[targetType |-> NULL, targetValue |-> NULL, startDate |-> Some(C(CheckinSpanDays) + 9),
      endDate |-> NULL, nulls |-> {}]}
    \cup
    {[targetType |-> NULL, targetValue |-> NULL, startDate |-> NULL, endDate |-> e,
      nulls |-> IF e = NULL THEN {"endDate"} ELSE {}] : e \in {NULL, Some(C(1) + 20)}}

InitWindow == EmptyStore /\ resp = NoResp /\ inflight = NoInflight

NextWindow ==
    \/ \E dto \in WindowCreateDtos : GoalsCreate("u1", "g1", dto)
    \/ \E dto \in WindowUpdateDtos : GoalsUpdate("u1", "g1", dto)
    \/ \E dto \in CheckinCreateDtos : CheckinsCreate("u1", dto)
    \/ \E cur \in goalCheckin, dto \in CheckinUpdateDtos :
          CheckinsUpdate("u1", Some(cur), dto)
    \/ \E cur \in goalCheckin : CheckinsRemove("u1", Some(cur))

SpecWindow == InitWindow /\ [][NextWindow]_vars

\* C17: every stored goal check-in lies on a day not before the normalized
\* startDate of its goal and, when the goal has an endDate, not after the
\* normalized endDate.
C17_CheckinsInsideGoalWindow ==
    \A c \in goalCheckin : \A g \in goal :
        g.id = c.goalId =>
            /\ normalizeDate(c.date) >= normalizeDate(g.startDate)
            /\ g.endDate # NULL => normalizeDate(c.date) <= normalizeDate(Val(g.endDate))

-----------------------------------------------------------------------------
(* StreaksService.addMember, removeMember and acceptInvite.  A membership  *)
(* row is [streakId, userId, role]; its id is given by the row.            *)

\* StreaksService.addMember
AddMember(userId, streakId, dto) ==
    LET found == {s \in streak : s.id = streakId}
    IN  IF found = {}
        THEN resp' = Threw("streaks.addMember", "NotFound") /\ UNCHANGED <<storeVars, inflight>>
        ELSE LET s == CHOOSE x \in found : TRUE
                 exists == {m \in streakMember :
                               m.streakId = streakId /\ m.userId = dto.userId}
             IN  IF s.createdById # userId
                 THEN resp' = Threw("streaks.addMember", "Forbidden")
                      /\ UNCHANGED <<storeVars, inflight>>
                 ELSE IF exists # {}
                 THEN resp' = Threw("streaks.addMember", "BadRequest")
                      /\ UNCHANGED <<storeVars, inflight>>
                 ELSE /\ streakMember' = streakMember \cup
                            {[streakId |-> streakId, userId |-> dto.userId,
                              role |-> "MEMBER"]}
                      /\ resp' = [op |-> "streaks.addMember", status |-> "ok",
                                  id |-> streakId]
                      /\ UNCHANGED <<goal, goalCheckin, streak, streakCheckin,
                                     rankingEntry, inflight>>

\* StreaksService.removeMember
RemoveMember(userId, streakId, memberUserId) ==
    LET found == {s \in streak : s.id = streakId}
    IN  IF found = {}
        THEN resp' = Threw("streaks.removeMember", "NotFound")
             /\ UNCHANGED <<storeVars, inflight>>
        ELSE LET s == CHOOSE x \in found : TRUE
                 member == {m \in streakMember :
                               m.streakId = streakId /\ m.userId = memberUserId}
             IN  IF s.createdById # userId
                 THEN resp' = Threw("streaks.removeMember", "Forbidden")
                      /\ UNCHANGED <<storeVars, inflight>>
                 ELSE IF member = {}
                 THEN resp' = Threw("streaks.removeMember", "NotFound")
                      /\ UNCHANGED <<storeVars, inflight>>
                 ELSE /\ streakMember' = streakMember \ {CHOOSE m \in member : TRUE}
                      /\ resp' = [op |-> "streaks.removeMember", status |-> "ok",
                                  id |-> streakId]
                      /\ UNCHANGED <<goal, goalCheckin, streak, streakCheckin,
                                     rankingEntry, inflight>>

\* StreaksService.acceptInvite; now is the clock read by new Date()
AcceptInvite(userId, streakId, now) ==
    LET found == {s \in streak : s.id = streakId}
    IN  IF found = {}
        THEN resp' = Threw("streaks.acceptInvite", "NotFound")
             /\ UNCHANGED <<storeVars, inflight>>
        ELSE LET s == CHOOSE x \in found : TRUE
                 alreadyMember == \E m \in streakMember :
                                     m.streakId = streakId /\ m.userId = userId
             IN  IF alreadyMember
                 THEN resp' = [op |-> "streaks.acceptInvite", status |-> "ok",
                               id |-> streakId]
                      /\ UNCHANGED <<storeVars, inflight>>
                 ELSE IF s.endDate # NULL /\ normalizeDay(Val(s.endDate)) < normalizeDay(now)
                 THEN resp' = Threw("streaks.acceptInvite", "BadRequest")
                      /\ UNCHANGED <<storeVars, inflight>>
                 ELSE /\ streakMember' = streakMember \cup
                            {[streakId |-> streakId, userId |-> userId,
                              role |-> "MEMBER"]}
                      /\ resp' = [op |-> "streaks.acceptInvite", status |-> "ok",
                                  id |-> streakId]
                      /\ UNCHANGED <<goal, goalCheckin, streak, streakCheckin,
                                     rankingEntry, inflight>>

-----------------------------------------------------------------------------
(* SpecMember: streaks are created and their members are added, removed    *)
(* and accept invitations, before and after the end of the streak.         *)

MemberStreakIds == {"s1", "s2"}

\* a streak without end, or one that ends on its first day
MemberDtos == [startDate : {D(1) + 13}, endDate : {NULL, Some(D(1) + 20)}]

\* the clock on the first day of the streak and on the day after
MemberClock == {D(1) + 15, D(2) + 15}

InitMember == EmptyStore /\ resp = NoResp /\ inflight = NoInflight

NextMember ==
    \/ \E u \in Users, id \in MemberStreakIds, dto \in MemberDtos :
          StreaksCreate(u, id, dto)
    \/ \E u, m \in Users, id \in MemberStreakIds : AddMember(u, id, [userId |-> m])
    \/ \E u, m \in Users, id \in MemberStreakIds : RemoveMember(u, id, m)
    \/ \E u \in Users, id \in MemberStreakIds, now \in MemberClock :
          AcceptInvite(u, id, now)

SpecMember == InitMember /\ [][NextMember]_vars

\* C18: the creator of every streak is a member of it with role OWNER, and
\* no (streak, user) pair has more than one membership.
C18_OwnerIsMember ==
    /\ \A s \in streak :
          [streakId |-> s.id, userId |-> s.createdById, role |-> "OWNER"] \in streakMember
    /\ \A a, b \in streakMember :
          (a.streakId = b.streakId /\ a.userId = b.userId) => a = b

\* the part of C18 that holds: no (streak, user) pair has more than one
\* membership, and only the creator of a streak has the role OWNER
MembershipsDistinct ==
    /\ \A a, b \in streakMember :
          (a.streakId = b.streakId /\ a.userId = b.userId) => a = b
    /\ \A m \in streakMember : \A s \in streak :
          (m.streakId = s.id /\ m.role = "OWNER") => m.userId = s.createdById

=============================================================================
